---- MODULE Spec2Model ----
(***************************************************************************)
(* Battleship: one ship on a square board (src/battleship.go).             *)
(* The game state is the Game struct (Board, Ship, Over, Shots); the       *)
(* operations are Ship.TakeHit and Game.TakeShot.                          *)
(***************************************************************************)
EXTENDS Integers, Sequences, FiniteSets, TLC

\* ---- bounds of the model ----
MaxSize == 2      \* board sizes 1..MaxSize
MaxArmor == 2     \* armor values -1..MaxArmor
MaxShots == 3     \* accepted shots per game
MaxHits == 4      \* direct TakeHit calls per ship

Handlers == {1, 2}   \* two /shot requests, each served in a goroutine of its own

Sizes == 1..MaxSize
Armors == (0 - 1)..MaxArmor
\* the coordinates a caller shoots at: every cell of the largest board, and
\* the positions just off its edges and corners
Targets ==
    {<<r, c>> : r \in 0..(MaxSize - 1), c \in 0..(MaxSize - 1)}
    \cup {<<r, c>> : r \in {0 - 1, 0, MaxSize}, c \in {0 - 1, 0, MaxSize}}

VARIABLES game,      \* the Game struct: Board, Ship, Over, Shots
          ret,       \* the last call and what it returned
          accepted,  \* history: number of TakeShot calls that returned a nil error
          ship0,     \* history: the ship as it was constructed
          ship,      \* a ship used on its own (TakeHit called directly)
          hits,      \* history: number of direct TakeHit calls on ship
          shipShots, \* history: number of accepted TakeShot calls aimed at the ship's cell
          pc,        \* HTTP mode: where each /shot handler stands
          loc,       \* HTTP mode: the locals of each /shot handler
          resp,      \* HTTP mode: the last response each handler wrote
          reqs,      \* HTTP mode: number of /shot requests received
          ui,        \* console mode: where RunConsoleUI stands and what it printed last
          flags      \* history: the command-line flags main was started with

vars == <<game, ret, accepted, ship0, flags, ship, hits, shipShots, pc, loc, resp, reqs, ui>>

http == <<pc, loc, resp, reqs>>

\* ---- errors (fmt.Errorf strings) ----
nil == "nil"
ErrOver == "game is allready done"
ErrRange == "out of range"

\* ---- ships ----
NewBasicShip(row, col) == [kind |-> "BasicShip", Row |-> row, Col |-> col, hp |-> 1]

NewArmoredShip(row, col, armor) == [kind |-> "ArmoredShip", Row |-> row, Col |-> col, Armor |-> armor]

BasicShip_Alive(s) == s.hp > 0

\* faulty variant: the result is computed from the hitpoints before the decrement
BasicShip_TakeHit_Stale(s) ==
    IF s.hp <= 0
    THEN [s |-> s, ret |-> TRUE]
    ELSE [s |-> [s EXCEPT !.hp = @ - 1], ret |-> (s.hp <= 0)]

BasicShip_TakeHit(s) ==
    IF s.hp <= 0
    THEN [s |-> s, ret |-> TRUE]
    ELSE [s |-> [s EXCEPT !.hp = @ - 1], ret |-> (s.hp - 1 <= 0)]

\* faulty variant: a ship with no armor left still counts as alive
ArmoredShip_Alive_NonNeg(s) == s.Armor >= 0

ArmoredShip_Alive(s) == s.Armor > 0

\* faulty variant: the guard for an already destroyed ship is missing
ArmoredShip_TakeHit_NoGuard(s) ==
    [s |-> [s EXCEPT !.Armor = @ - 1], ret |-> (s.Armor - 1 <= 0)]

\* faulty variant: destroyed is reported one hit late
ArmoredShip_TakeHit_Late(s) ==
    IF s.Armor <= 0
    THEN [s |-> s, ret |-> TRUE]
    ELSE [s |-> [s EXCEPT !.Armor = @ - 1], ret |-> (s.Armor - 1 < 0)]

ArmoredShip_TakeHit(s) ==
    IF s.Armor <= 0
    THEN [s |-> s, ret |-> TRUE]
    ELSE [s |-> [s EXCEPT !.Armor = @ - 1], ret |-> (s.Armor - 1 <= 0)]

\* interface Ship: dynamic dispatch on the concrete type
Position(s) == <<s.Row, s.Col>>

Alive(s) == IF s.kind = "BasicShip" THEN BasicShip_Alive(s) ELSE ArmoredShip_Alive(s)

TakeHit(s) == IF s.kind = "BasicShip" THEN BasicShip_TakeHit(s) ELSE ArmoredShip_TakeHit(s)

\* ---- board ----
NewBoard(size) ==
    [Size |-> size, Cells |-> [i \in 0..(size - 1) |-> [j \in 0..(size - 1) |-> "."]]]

\* faulty variant: row 0 is taken to be off the board
InBounds_RowPositive(b, r, c) == r > 0 /\ r < b.Size /\ c >= 0 /\ c < b.Size

InBounds(b, r, c) == r >= 0 /\ r < b.Size /\ c >= 0 /\ c < b.Size

\* ---- game ----
ShotResult(hit, destroyed) == [Hit |-> hit, Destroyed |-> destroyed]

NewGame(boardSize, s) ==
    [Board |-> NewBoard(boardSize), Ship |-> s, Over |-> FALSE, Shots |-> 0]

\* faulty variant: Alive() is not asked
ShotHits_NoAlive(g, r, c) ==
    LET pos == Position(g.Ship)
    IN  r = pos[1] /\ c = pos[2]

\* faulty variant: the row or the column matching is taken for a hit
ShotHits_RowOrCol(g, r, c) ==
    LET pos == Position(g.Ship)
    IN  (r = pos[1] \/ c = pos[2]) /\ Alive(g.Ship)

\* the test of TakeShot's if: the shot is at the position of a living ship
ShotHits(g, r, c) ==
    LET pos == Position(g.Ship)
    IN  r = pos[1] /\ c = pos[2] /\ Alive(g.Ship)

\* faulty variant: any hit ends the game
ApplyHit_AlwaysOver(g, r, c) ==
    LET th == TakeHit(g.Ship)
        g2 == [g EXCEPT !.Ship = th.s]
    IN  IF th.ret
        THEN [g |-> [g2 EXCEPT !.Board.Cells[r][c] = "X", !.Over = TRUE],
              sr |-> ShotResult(TRUE, TRUE), err |-> nil]
        ELSE [g |-> [g2 EXCEPT !.Board.Cells[r][c] = "H", !.Over = TRUE],
              sr |-> ShotResult(TRUE, FALSE), err |-> nil]

\* faulty variant: the two branches on destroyed are swapped
ApplyHit_Swapped(g, r, c) ==
    LET th == TakeHit(g.Ship)
        g2 == [g EXCEPT !.Ship = th.s]
    IN  IF ~th.ret
        THEN [g |-> [g2 EXCEPT !.Board.Cells[r][c] = "X", !.Over = TRUE],
              sr |-> ShotResult(TRUE, th.ret), err |-> nil]
        ELSE [g |-> [g2 EXCEPT !.Board.Cells[r][c] = "H"],
              sr |-> ShotResult(TRUE, th.ret), err |-> nil]

\* faulty variant: a hit that does not destroy is marked 'X' as well
ApplyHit_MarkX(g, r, c) ==
    LET th == TakeHit(g.Ship)
        g2 == [g EXCEPT !.Ship = th.s]
    IN  IF th.ret
        THEN [g |-> [g2 EXCEPT !.Board.Cells[r][c] = "X", !.Over = TRUE],
              sr |-> ShotResult(TRUE, TRUE), err |-> nil]
        ELSE [g |-> [g2 EXCEPT !.Board.Cells[r][c] = "X"],
              sr |-> ShotResult(TRUE, FALSE), err |-> nil]

\* faulty variant: sr.Hit is not set on the destroying hit
ApplyHit_NoHitFlag(g, r, c) ==
    LET th == TakeHit(g.Ship)
        g2 == [g EXCEPT !.Ship = th.s]
    IN  IF th.ret
        THEN [g |-> [g2 EXCEPT !.Board.Cells[r][c] = "X", !.Over = TRUE],
              sr |-> ShotResult(FALSE, TRUE), err |-> nil]
        ELSE [g |-> [g2 EXCEPT !.Board.Cells[r][c] = "H"],
              sr |-> ShotResult(TRUE, FALSE), err |-> nil]

\* faulty variant: the destroying hit marks the cell but leaves the game running
ApplyHit_NoOver(g, r, c) ==
    LET th == TakeHit(g.Ship)
        g2 == [g EXCEPT !.Ship = th.s]
    IN  IF th.ret
        THEN [g |-> [g2 EXCEPT !.Board.Cells[r][c] = "X"],
              sr |-> ShotResult(TRUE, TRUE), err |-> nil]
        ELSE [g |-> [g2 EXCEPT !.Board.Cells[r][c] = "H"],
              sr |-> ShotResult(TRUE, FALSE), err |-> nil]

\* the then-branch of TakeShot: the ship takes the hit, the cell is marked
ApplyHit(g, r, c) ==
    LET th == TakeHit(g.Ship)
        g2 == [g EXCEPT !.Ship = th.s]
    IN  IF th.ret
        THEN [g |-> [g2 EXCEPT !.Board.Cells[r][c] = "X", !.Over = TRUE],
              sr |-> ShotResult(TRUE, TRUE), err |-> nil]
        ELSE [g |-> [g2 EXCEPT !.Board.Cells[r][c] = "H"],
              sr |-> ShotResult(TRUE, FALSE), err |-> nil]

\* faulty variant: row and column are swapped when the miss is marked
ApplyMiss_Transposed(g, r, c) ==
    IF g.Board.Cells[c][r] = "."
    THEN [g |-> [g EXCEPT !.Board.Cells[c][r] = "o"], sr |-> ShotResult(FALSE, FALSE), err |-> nil]
    ELSE [g |-> g, sr |-> ShotResult(FALSE, FALSE), err |-> nil]

\* the else-branch of TakeShot: an empty cell gets the miss marker
ApplyMiss(g, r, c) ==
    IF g.Board.Cells[r][c] = "."
    THEN [g |-> [g EXCEPT !.Board.Cells[r][c] = "o"], sr |-> ShotResult(FALSE, FALSE), err |-> nil]
    ELSE [g |-> g, sr |-> ShotResult(FALSE, FALSE), err |-> nil]

\* faulty variant: the bounds are checked before Over
TakeShot_BoundsFirst(g, r, c) ==
    IF ~InBounds(g.Board, r, c)
    THEN [g |-> g, sr |-> ShotResult(FALSE, FALSE), err |-> ErrRange]
    ELSE IF g.Over
    THEN [g |-> g, sr |-> ShotResult(FALSE, FALSE), err |-> ErrOver]
    ELSE LET g1 == [g EXCEPT !.Shots = @ + 1]
         IN  IF ShotHits(g1, r, c) THEN ApplyHit(g1, r, c) ELSE ApplyMiss(g1, r, c)

\* faulty variant: only hits are counted
TakeShot_CountHits(g, r, c) ==
    IF g.Over
    THEN [g |-> g, sr |-> ShotResult(FALSE, FALSE), err |-> ErrOver]
    ELSE IF ~InBounds(g.Board, r, c)
    THEN [g |-> g, sr |-> ShotResult(FALSE, FALSE), err |-> ErrRange]
    ELSE LET g1 == [g EXCEPT !.Shots = @ + 1]
         IN  IF ShotHits(g, r, c) THEN ApplyHit(g1, r, c) ELSE ApplyMiss(g, r, c)

TakeShot(g, r, c) ==
    IF g.Over
    THEN [g |-> g, sr |-> ShotResult(FALSE, FALSE), err |-> ErrOver]
    ELSE IF ~InBounds(g.Board, r, c)
    THEN [g |-> g, sr |-> ShotResult(FALSE, FALSE), err |-> ErrRange]
    ELSE LET g1 == [g EXCEPT !.Shots = @ + 1]
         IN  IF ShotHits(g1, r, c) THEN ApplyHit(g1, r, c) ELSE ApplyMiss(g1, r, c)

\* ---- the ships a caller can construct ----
ShipsAt(rows, cols) ==
    {NewBasicShip(row, col) : row \in rows, col \in cols}
    \cup {NewArmoredShip(row, col, a) : row \in rows, col \in cols, a \in Armors}

NoCall == [op |-> "new", r |-> 0, c |-> 0, sr |-> ShotResult(FALSE, FALSE), err |-> nil, b |-> FALSE]

\* the flags are recorded only where main's own choice of the game is examined
NoFlags == [http |-> FALSE, armor |-> 0, size |-> 0]

\* ---- HTTP mode: locals and responses of the /shot handlers ----
NoLoc == [r |-> 0, c |-> 0, n |-> 0, v |-> 0, hit |-> FALSE, destroyed |-> FALSE,
          shots |-> 0]

NoResp == [status |-> 0, body |-> "", sr |-> ShotResult(FALSE, FALSE), shots |-> 0,
           over |-> FALSE]

HttpIdle ==
    /\ pc = [h \in Handlers |-> "idle"]
    /\ loc = [h \in Handlers |-> NoLoc]
    /\ resp = [h \in Handlers |-> NoResp]
    /\ reqs = 0

\* ---- sequential play: one caller, TakeShot after TakeShot ----
Init ==
    /\ \E size \in Sizes : \E s \in ShipsAt(0..(size - 1), 0..(size - 1)) :
          /\ game = NewGame(size, s)
          /\ ship0 = s
          /\ ship = s
    /\ ret = NoCall
    /\ accepted = 0
    /\ hits = 0
    /\ shipShots = 0
    /\ HttpIdle
    /\ ui = [pc |-> "loop", out |-> ""]
    /\ flags = NoFlags

CallTakeShot(r, c) ==
    LET out == TakeShot(game, r, c)
    IN  /\ (out.err = nil) => game.Shots < MaxShots
        /\ game' = out.g
        /\ ret' = [op |-> "TakeShot", r |-> r, c |-> c, sr |-> out.sr, err |-> out.err, b |-> FALSE]
        /\ accepted' = IF out.err = nil THEN accepted + 1 ELSE accepted
        /\ shipShots' = IF out.err = nil /\ <<r, c>> = <<ship0.Row, ship0.Col>>
                        THEN shipShots + 1 ELSE shipShots
        /\ UNCHANGED <<ship0, flags, ship, hits>>
        /\ UNCHANGED <<http, ui>>

Next == \E t \in Targets : CallTakeShot(t[1], t[2])

Spec == Init /\ [][Next]_vars

\* ---- a ship on its own: TakeHit called directly, any number of times ----
CallTakeHit ==
    LET out == TakeHit(ship)
    IN  /\ hits < MaxHits
        /\ ship' = out.s
        /\ hits' = hits + 1
        /\ ret' = [op |-> "TakeHit", r |-> 0, c |-> 0, sr |-> ShotResult(FALSE, FALSE),
                   err |-> nil, b |-> out.ret]
        /\ UNCHANGED <<game, accepted, ship0, flags, shipShots>>
        /\ UNCHANGED <<http, ui>>

NextShip == CallTakeHit

SpecShip == Init /\ [][NextShip]_vars

\* ---- HTTP mode: main builds the one Game, net/http serves each /shot ----
\* ---- request in a goroutine of its own; nothing guards the Game.     ----
\* Every read and every write of a field of the shared Game is a step of
\* its own, so the handlers interleave between any two of them.

\* the remaining-hitpoints field of either kind of ship: hp or Armor
Hitpoints(s) == IF s.kind = "BasicShip" THEN s.hp ELSE s.Armor

SetHitpoints(s, v) ==
    IF s.kind = "BasicShip" THEN [s EXCEPT !.hp = v] ELSE [s EXCEPT !.Armor = v]

\* faulty variant: an armor of 0 builds an ArmoredShip
main_ZeroArmored(armor, size, row, col) ==
    NewGame(size, IF armor >= 0 THEN NewArmoredShip(row, col, armor)
                  ELSE NewBasicShip(row, col))

\* main: the ship and the game built from the flags and the random position
main(armor, size, row, col) ==
    NewGame(size, IF armor > 0 THEN NewArmoredShip(row, col, armor)
                  ELSE NewBasicShip(row, col))

\* strconv.Atoi on a string given as its sequence of characters
Digits == <<"0", "1", "2", "3", "4", "5", "6", "7", "8", "9">>

IsDigit(ch) == \E i \in 1..10 : Digits[i] = ch

DigitVal(ch) == (CHOOSE i \in 1..10 : Digits[i] = ch) - 1

RECURSIVE ParseDigits(_, _)
ParseDigits(str, acc) ==
    IF str = <<>> THEN acc
    ELSE ParseDigits(Tail(str), acc * 10 + DigitVal(Head(str)))

\* the digits of the largest uint64, 1<<64 - 1, of the largest int, 1<<63 - 1,
\* and of the magnitude of the smallest int, 1<<63
MaxUintDigits ==
    <<"1", "8", "4", "4", "6", "7", "4", "4", "0", "7",
      "3", "7", "0", "9", "5", "5", "1", "6", "1", "5">>

MaxIntDigits ==
    <<"9", "2", "2", "3", "3", "7", "2", "0", "3", "6",
      "8", "5", "4", "7", "7", "5", "8", "0", "7">>

MinIntDigits ==
    <<"9", "2", "2", "3", "3", "7", "2", "0", "3", "6",
      "8", "5", "4", "7", "7", "5", "8", "0", "8">>

RECURSIVE StripZeros(_)
StripZeros(str) ==
    IF str # <<>> /\ Head(str) = "0" THEN StripZeros(Tail(str)) ELSE str

\* a digit string names a larger number than another one of the same length
DigitsGreater(a, b) ==
    \E i \in 1..Len(a) :
       /\ DigitVal(a[i]) > DigitVal(b[i])
       /\ \A j \in 1..(i - 1) : a[j] = b[j]

\* a digit string names a larger number than the limit does
Exceeds(digits, limit) ==
    LET m == StripZeros(digits)
    IN  Len(m) > Len(limit) \/ (Len(m) = Len(limit) /\ DigitsGreater(m, limit))

\* the digits a string starts with, up to its first character that is not one
DigitPrefix(str) ==
    LET others == {k \in 1..Len(str) : ~IsDigit(str[k])}
    IN  IF others = {} THEN str
        ELSE SubSeq(str, 1, (CHOOSE k \in others : \A j \in others : k <= j) - 1)

\* the error of strconv.ParseUint(s, 10, 64): the loop over the characters
\* stops at the first one that is not a digit (syntax) or at the first digit
\* at which the accumulator passes 1<<64 - 1 (range), whichever comes first
ParseUintErr(s) ==
    IF s = <<>> THEN "invalid syntax"
    ELSE IF Exceeds(DigitPrefix(s), MaxUintDigits) THEN "value out of range"
    ELSE IF Len(DigitPrefix(s)) < Len(s) THEN "invalid syntax"
    ELSE nil

AtoiSigned(str) == str # <<>> /\ Head(str) \in {"+", "-"}

AtoiNeg(str) == AtoiSigned(str) /\ Head(str) = "-"

AtoiBody(str) == IF AtoiSigned(str) THEN Tail(str) ELSE str

\* the digits name a value that an int (64 bits) cannot hold
AtoiOutOfRange(body, neg) ==
    Exceeds(body, IF neg THEN MinIntDigits ELSE MaxIntDigits)

\* the error strconv.Atoi returns
AtoiErr(str) ==
    LET body == AtoiBody(str)
        err == ParseUintErr(body)
    IN  IF err # nil THEN err
        ELSE IF AtoiOutOfRange(body, AtoiNeg(str)) THEN "value out of range"
        ELSE nil

\* the value strconv.Atoi returns: 0 on a syntax error, the nearest int on a
\* range error
AtoiVal(str) ==
    LET err == AtoiErr(str)
        neg == AtoiNeg(str)
        digits == IF err = nil THEN AtoiBody(str)
                  ELSE IF neg THEN MinIntDigits ELSE MaxIntDigits
    IN  IF err = "invalid syntax" THEN 0
        ELSE IF neg THEN 0 - ParseDigits(digits, 0) ELSE ParseDigits(digits, 0)

Atoi(str) == [val |-> AtoiVal(str), err |-> AtoiErr(str)]

\* a digit string beyond the range of uint64: 1 followed by 20 zeros
TooLong == <<"1">> \o [i \in 1..Len(MaxUintDigits) |-> "0"]

\* the values of the query parameters r and c that clients send
QueryValues ==
    {<<>>, <<"x">>, <<"-", "1">>, <<"+", "1">>, TooLong}
    \cup {<<Digits[i + 1]>> : i \in 0..MaxSize}

InitHTTP ==
    /\ \E armor \in Armors, size \in Sizes :
          \E row \in 0..(size - 1), col \in 0..(size - 1) :
             /\ game = main(armor, size, row, col)
             /\ ship0 = main(armor, size, row, col).Ship
             /\ ship = main(armor, size, row, col).Ship
    /\ ret = NoCall
    /\ accepted = 0
    /\ hits = 0
    /\ shipShots = 0
    /\ HttpIdle
    /\ ui = [pc |-> "loop", out |-> ""]
    /\ flags = NoFlags

Goto(h, label) == pc' = [pc EXCEPT ![h] = label]

\* http.Error(w, msg, 400) and return
Reply400(h, msg) ==
    /\ resp' = [resp EXCEPT ![h] = [NoResp EXCEPT !.status = 400, !.body = msg]]
    /\ loc' = [loc EXCEPT ![h] = NoLoc]
    /\ Goto(h, "done")

\* TakeShot returns (sr, nil) to the handler
Returned(h, hit, destroyed) ==
    /\ ret' = [op |-> "TakeShot", r |-> loc[h].r, c |-> loc[h].c,
               sr |-> ShotResult(hit, destroyed), err |-> nil, b |-> FALSE]
    /\ accepted' = accepted + 1
    /\ shipShots' = IF <<loc[h].r, loc[h].c>> = <<ship0.Row, ship0.Col>>
                    THEN shipShots + 1 ELSE shipShots
    /\ Goto(h, "reply")

\* lines 178-191: a request arrives, its parameters are read and parsed
Request(h, rStr, cStr) ==
    /\ pc[h] = "idle"
    /\ reqs' = reqs + 1
    /\ IF rStr = <<>> \/ cStr = <<>>
       THEN Reply400(h, "Need r and c")
       ELSE IF AtoiErr(rStr) # nil \/ AtoiErr(cStr) # nil
       THEN Reply400(h, "r and c must be numbers")
       ELSE /\ loc' = [loc EXCEPT ![h] = [NoLoc EXCEPT !.r = AtoiVal(rStr),
                                                       !.c = AtoiVal(cStr)]]
            /\ Goto(h, "over")
            /\ UNCHANGED resp
    /\ UNCHANGED <<game, ret, accepted, ship0, flags, ui, ship, hits, shipShots>>

\* faulty variant: the shot is counted before the bounds are tested
Guards_CountEarly(h) ==
    /\ pc[h] = "over"
    /\ IF game.Over
       THEN /\ Reply400(h, ErrOver)
            /\ ret' = [op |-> "TakeShot", r |-> loc[h].r, c |-> loc[h].c,
                       sr |-> ShotResult(FALSE, FALSE), err |-> ErrOver, b |-> FALSE]
            /\ UNCHANGED game
       ELSE IF ~InBounds(game.Board, loc[h].r, loc[h].c)
       THEN /\ Reply400(h, ErrRange)
            /\ ret' = [op |-> "TakeShot", r |-> loc[h].r, c |-> loc[h].c,
                       sr |-> ShotResult(FALSE, FALSE), err |-> ErrRange, b |-> FALSE]
            /\ game' = [game EXCEPT !.Shots = @ + 1]
       ELSE /\ Goto(h, "count")
            /\ UNCHANGED <<loc, resp, ret, game>>
    /\ UNCHANGED <<accepted, ship0, flags, ui, ship, hits, shipShots, reqs>>

\* lines 121-126: g.Over is read, then the bounds are tested
Guards(h) ==
    /\ pc[h] = "over"
    /\ IF game.Over
       THEN /\ Reply400(h, ErrOver)
            /\ ret' = [op |-> "TakeShot", r |-> loc[h].r, c |-> loc[h].c,
                       sr |-> ShotResult(FALSE, FALSE), err |-> ErrOver, b |-> FALSE]
       ELSE IF ~InBounds(game.Board, loc[h].r, loc[h].c)
       THEN /\ Reply400(h, ErrRange)
            /\ ret' = [op |-> "TakeShot", r |-> loc[h].r, c |-> loc[h].c,
                       sr |-> ShotResult(FALSE, FALSE), err |-> ErrRange, b |-> FALSE]
       ELSE /\ Goto(h, "count")
            /\ UNCHANGED <<loc, resp, ret>>
    /\ UNCHANGED <<game, accepted, ship0, flags, ui, ship, hits, shipShots, reqs>>

\* line 127, g.Shots++: the read
ReadShots(h) ==
    /\ pc[h] = "count"
    /\ loc' = [loc EXCEPT ![h].n = game.Shots]
    /\ Goto(h, "store")
    /\ UNCHANGED <<game, ret, accepted, ship0, flags, ui, ship, hits, shipShots, resp, reqs>>

\* faulty variant: the increment is one indivisible step on the current value
WriteShots_Atomic(h) ==
    /\ pc[h] = "store"
    /\ game' = [game EXCEPT !.Shots = game.Shots + 1]
    /\ Goto(h, "aim")
    /\ UNCHANGED <<ret, accepted, ship0, flags, ui, ship, hits, shipShots, loc, resp, reqs>>

\* line 127, g.Shots++: the write of the value read plus one
WriteShots(h) ==
    /\ pc[h] = "store"
    /\ game' = [game EXCEPT !.Shots = loc[h].n + 1]
    /\ Goto(h, "aim")
    /\ UNCHANGED <<ret, accepted, ship0, flags, ui, ship, hits, shipShots, loc, resp, reqs>>

\* faulty variant: Over is tested a second time before the shot is resolved
Aim_Recheck(h) ==
    /\ pc[h] = "aim"
    /\ IF game.Over
       THEN /\ Reply400(h, ErrOver)
            /\ ret' = [op |-> "TakeShot", r |-> loc[h].r, c |-> loc[h].c,
                       sr |-> ShotResult(FALSE, FALSE), err |-> ErrOver, b |-> FALSE]
       ELSE IF ShotHits(game, loc[h].r, loc[h].c)
       THEN /\ loc' = [loc EXCEPT ![h].hit = TRUE]
            /\ Goto(h, "hit")
            /\ UNCHANGED <<resp, ret>>
       ELSE /\ Goto(h, "look")
            /\ UNCHANGED <<loc, resp, ret>>
    /\ UNCHANGED <<game, accepted, ship0, flags, ui, ship, hits, shipShots, reqs>>

\* lines 130-132: the position and Alive() are read
Aim(h) ==
    /\ pc[h] = "aim"
    /\ IF ShotHits(game, loc[h].r, loc[h].c)
       THEN /\ loc' = [loc EXCEPT ![h].hit = TRUE]
            /\ Goto(h, "hit")
       ELSE /\ Goto(h, "look")
            /\ UNCHANGED loc
    /\ UNCHANGED <<game, ret, accepted, ship0, flags, ui, ship, hits, shipShots, resp, reqs>>

\* TakeHit, lines 34-36 and 54-56: the guard reads the hitpoints
TakeHitGuard(h) ==
    /\ pc[h] = "hit"
    /\ IF Hitpoints(game.Ship) <= 0
       THEN /\ loc' = [loc EXCEPT ![h].destroyed = TRUE]
            /\ Goto(h, "mark")
       ELSE /\ Goto(h, "load")
            /\ UNCHANGED loc
    /\ UNCHANGED <<game, ret, accepted, ship0, flags, ui, ship, hits, shipShots, resp, reqs>>

\* TakeHit, lines 37 and 57, s.hp-- / s.Armor--: the read
TakeHitLoad(h) ==
    /\ pc[h] = "load"
    /\ loc' = [loc EXCEPT ![h].v = Hitpoints(game.Ship)]
    /\ Goto(h, "dec")
    /\ UNCHANGED <<game, ret, accepted, ship0, flags, ui, ship, hits, shipShots, resp, reqs>>

\* TakeHit, lines 37 and 57: the write of the value read minus one
TakeHitStore(h) ==
    /\ pc[h] = "dec"
    /\ game' = [game EXCEPT !.Ship = SetHitpoints(game.Ship, loc[h].v - 1)]
    /\ Goto(h, "test")
    /\ UNCHANGED <<ret, accepted, ship0, flags, ui, ship, hits, shipShots, loc, resp, reqs>>

\* TakeHit, lines 38 and 58: the hitpoints are read again for the result
TakeHitResult(h) ==
    /\ pc[h] = "test"
    /\ loc' = [loc EXCEPT ![h].destroyed = (Hitpoints(game.Ship) <= 0)]
    /\ Goto(h, "mark")
    /\ UNCHANGED <<game, ret, accepted, ship0, flags, ui, ship, hits, shipShots, resp, reqs>>

\* lines 135-140: the cell is marked 'X' or 'H'
MarkHit(h) ==
    /\ pc[h] = "mark"
    /\ IF loc[h].destroyed
       THEN /\ game' = [game EXCEPT !.Board.Cells[loc[h].r][loc[h].c] = "X"]
            /\ Goto(h, "end")
            /\ UNCHANGED <<ret, accepted, shipShots>>
       ELSE /\ game' = [game EXCEPT !.Board.Cells[loc[h].r][loc[h].c] = "H"]
            /\ Returned(h, TRUE, FALSE)
    /\ UNCHANGED <<ship0, flags, ui, ship, hits, loc, resp, reqs>>

\* line 137: g.Over = true, and TakeShot returns
SetOver(h) ==
    /\ pc[h] = "end"
    /\ game' = [game EXCEPT !.Over = TRUE]
    /\ Returned(h, TRUE, TRUE)
    /\ UNCHANGED <<ship0, flags, ui, ship, hits, loc, resp, reqs>>

\* line 142: the cell is read
LookCell(h) ==
    /\ pc[h] = "look"
    /\ IF game.Board.Cells[loc[h].r][loc[h].c] = "."
       THEN /\ Goto(h, "put")
            /\ UNCHANGED <<ret, accepted, shipShots>>
       ELSE Returned(h, FALSE, FALSE)
    /\ UNCHANGED <<game, ship0, flags, ui, ship, hits, loc, resp, reqs>>

\* line 143: the miss marker is written, and TakeShot returns
PutMiss(h) ==
    /\ pc[h] = "put"
    /\ game' = [game EXCEPT !.Board.Cells[loc[h].r][loc[h].c] = "o"]
    /\ Returned(h, FALSE, FALSE)
    /\ UNCHANGED <<ship0, flags, ui, ship, hits, loc, resp, reqs>>

\* line 201: g.Shots is read for the response
ReplyShots(h) ==
    /\ pc[h] = "reply"
    /\ loc' = [loc EXCEPT ![h].shots = game.Shots]
    /\ Goto(h, "send")
    /\ UNCHANGED <<game, ret, accepted, ship0, flags, ui, ship, hits, shipShots, resp, reqs>>

\* lines 203-207: g.Over is read and the response is written
ReplyOver(h) ==
    /\ pc[h] = "send"
    /\ resp' = [resp EXCEPT ![h] = [status |-> 200, body |-> "json",
                                    sr |-> ShotResult(loc[h].hit, loc[h].destroyed),
                                    shots |-> loc[h].shots, over |-> game.Over]]
    /\ loc' = [loc EXCEPT ![h] = NoLoc]
    /\ Goto(h, "done")
    /\ UNCHANGED <<game, ret, accepted, ship0, flags, ui, ship, hits, shipShots, reqs>>

Handle(h) ==
    \/ \E rStr \in QueryValues, cStr \in QueryValues : Request(h, rStr, cStr)
    \/ Guards(h)
    \/ ReadShots(h)
    \/ WriteShots(h)
    \/ Aim(h)
    \/ TakeHitGuard(h)
    \/ TakeHitLoad(h)
    \/ TakeHitStore(h)
    \/ TakeHitResult(h)
    \/ MarkHit(h)
    \/ SetOver(h)
    \/ LookCell(h)
    \/ PutMiss(h)
    \/ ReplyShots(h)
    \/ ReplyOver(h)

NextHTTP == \E h \in Handlers : Handle(h)

SpecHTTP == InitHTTP /\ [][NextHTTP]_vars

\* ---- console mode: RunConsoleUI, one turn of its loop after the other ----
\* what is left of the shot budget once the hits the ship can still take
\* are set aside: misses use up only this part, so that within the bound
\* the shooter can always go on to destroy the ship
Spare(g) ==
    MaxShots - g.Shots
      - (IF InBounds(g.Board, g.Ship.Row, g.Ship.Col) /\ Hitpoints(g.Ship) > 0
         THEN Hitpoints(g.Ship) ELSE 0)

\* lines 162-169: the line printed for an accepted shot
Verdict(sr) ==
    IF sr.Destroyed THEN "Ship destroyed"
    ELSE IF sr.Hit THEN "Hit, but ship is alive"
    ELSE "Miss"

\* lines 150-156: the loop is entered, fmt.Scan fails, the error is printed
ConsoleScanError ==
    /\ ui.pc = "loop"
    /\ ~game.Over
    /\ ui' = [pc |-> "loop", out |-> "error: "]
    /\ ret' = [NoCall EXCEPT !.op = "Scan", !.err = "expected integer"]
    /\ UNCHANGED <<game, accepted, ship0, flags, ship, hits, shipShots, http>>

\* lines 150-170: the loop is entered, two integers are read, TakeShot is
\* called and the error or the verdict is printed
ConsoleShot(r, c) ==
    LET res == TakeShot(game, r, c)
    IN  /\ ui.pc = "loop"
        /\ ~game.Over
        /\ (res.err = nil /\ ~ShotHits(game, r, c)) => Spare(game) > 0
        /\ game' = res.g
        /\ ret' = [op |-> "TakeShot", r |-> r, c |-> c, sr |-> res.sr, err |-> res.err,
                   b |-> FALSE]
        /\ accepted' = IF res.err = nil THEN accepted + 1 ELSE accepted
        /\ shipShots' = IF res.err = nil /\ <<r, c>> = <<ship0.Row, ship0.Col>>
                        THEN shipShots + 1 ELSE shipShots
        /\ ui' = [pc |-> "loop", out |-> IF res.err # nil THEN "error: " ELSE Verdict(res.sr)]
        /\ UNCHANGED <<ship0, flags, ship, hits, http>>

\* lines 150 and 171-172: Over is true, the loop ends, the final board is printed
ConsoleExit ==
    /\ ui.pc = "loop"
    /\ game.Over
    /\ ui' = [pc |-> "exited", out |-> "Final board: "]
    /\ UNCHANGED <<game, ret, accepted, ship0, flags, ship, hits, shipShots, http>>

NextConsole ==
    \/ ConsoleScanError
    \/ \E t \in Targets : ConsoleShot(t[1], t[2])
    \/ ConsoleExit

SpecConsole == Init /\ [][NextConsole]_vars

\* the shooter keeps coming back to the ship's cell
ShootShip == ConsoleShot(ship0.Row, ship0.Col)

\* main, lines 219-242: the game of the flags and the random position is
\* handed to RunConsoleUI
InitConsole ==
    /\ \E armor \in Armors, size \in Sizes :
          \E row \in 0..(size - 1), col \in 0..(size - 1) :
             /\ game = main(armor, size, row, col)
             /\ ship0 = main(armor, size, row, col).Ship
             /\ ship = main(armor, size, row, col).Ship
    /\ ret = NoCall
    /\ accepted = 0
    /\ hits = 0
    /\ shipShots = 0
    /\ HttpIdle
    /\ ui = [pc |-> "loop", out |-> ""]
    /\ flags = NoFlags

SpecConsoleFair == InitConsole /\ [][NextConsole]_vars /\ WF_vars(ShootShip)

\* ---- main: the flags choose the game and the shell that runs it ----
InitMain ==
    /\ \E httpMode \in BOOLEAN, armor \in Armors, size \in Sizes :
          \E row \in 0..(size - 1), col \in 0..(size - 1) :
             /\ flags = [http |-> httpMode, armor |-> armor, size |-> size]
             /\ game = main(armor, size, row, col)
             /\ ship0 = main(armor, size, row, col).Ship
             /\ ship = main(armor, size, row, col).Ship
             /\ IF httpMode
                THEN pc = [h \in Handlers |-> "idle"] /\ ui = [pc |-> "off", out |-> ""]
                ELSE pc = [h \in Handlers |-> "off"] /\ ui = [pc |-> "loop", out |-> ""]
    /\ ret = NoCall
    /\ accepted = 0
    /\ hits = 0
    /\ shipShots = 0
    /\ loc = [h \in Handlers |-> NoLoc]
    /\ resp = [h \in Handlers |-> NoResp]
    /\ reqs = 0

NextMain ==
    \/ NextHTTP
    \/ NextConsole

SpecMain == InitMain /\ [][NextMain]_vars

\* ---- vocabulary of the properties ----

OnBoard(r, c) == 0 <= r /\ r < game.Board.Size /\ 0 <= c /\ c < game.Board.Size

AtShip(r, c) == r = game.Ship.Row /\ c = game.Ship.Col

Cell(g, r, c) == g.Board.Cells[r][c]

AllCells == {<<i, j>> : i \in 0..(game.Board.Size - 1), j \in 0..(game.Board.Size - 1)}

Miss == ShotResult(FALSE, FALSE)

\* C1: once Over is true every TakeShot(r, c), in bounds or not, fails with
\* the game-already-over error and changes neither Shots, nor any cell, nor
\* the ship, nor Over (nor the count of accepted calls).
C1_OverRejectsAll ==
    [][game.Over => /\ ret'.op = "TakeShot"
                    /\ ret'.err = ErrOver
                    /\ game' = game
                    /\ accepted' = accepted]_vars

C1_Witness ==
    /\ game.Over
    /\ ret.op = "TakeShot"
    /\ ret.err = ErrOver
    /\ ~OnBoard(ret.r, ret.c)
    /\ game.Shots >= 2

\* C2: on an Active game TakeShot(r, c) fails with the out-of-range error
\* exactly when (r, c) is not within 0..N-1 x 0..N-1, and the rejected call
\* changes nothing of the game.
C2_OutOfRangeIffOffBoard ==
    [][~game.Over => /\ (ret'.err = ErrRange) <=> ~OnBoard(ret'.r, ret'.c)
                     /\ (ret'.err = ErrRange) => (game' = game /\ accepted' = accepted)]_vars

C2_Witness ==
    /\ ~game.Over
    /\ game.Shots >= 1
    /\ ret.op = "TakeShot"
    /\ ret.err = ErrRange
    /\ ret.r = game.Board.Size
    /\ ret.c \in 0..(game.Board.Size - 1)

\* C3: Shots goes up by exactly 1 on every accepted call (Active game,
\* coordinates on the board), whatever the outcome, and by 0 on every
\* rejected call; Shots equals the number of calls that returned no error.
C3_ShotsCountsAccepted ==
    /\ [](game.Shots = accepted)
    /\ [][LET ok == ~game.Over /\ OnBoard(ret'.r, ret'.c)
          IN  /\ (ret'.err = nil) <=> ok
              /\ game'.Shots = game.Shots + (IF ok THEN 1 ELSE 0)
              /\ game'.Shots >= game.Shots]_vars

C3_Witness ==
    /\ ret.op = "TakeShot"
    /\ ret.err = nil
    /\ ret.sr = ShotResult(TRUE, TRUE)
    /\ game.Shots = 3
    /\ accepted = 3
    /\ shipShots = 2
    /\ \E p \in AllCells : Cell(game, p[1], p[2]) = "o"

\* C4: Over starts false, never goes back from true to false, and a call
\* turns it from false to true exactly when the call returns Destroyed.
C4_OverMonotoneOnDestroy ==
    /\ (game.Over = FALSE)
    /\ [][/\ game.Over => game'.Over
          /\ (~game.Over /\ game'.Over) <=> ret'.sr.Destroyed]_vars

C4_Witness ==
    /\ game.Over
    /\ ret.op = "TakeShot"
    /\ ret.sr.Destroyed
    /\ Hitpoints(ship0) = 2

\* C5: an accepted shot at the cell of a living ship reports Hit and takes
\* exactly one hitpoint; at zero the cell is 'X', Over is set and Destroyed
\* is reported, otherwise the cell is 'H', Over stays false and Destroyed is
\* false. So with A hitpoints the k-th such shot destroys iff k = A.
C5_HitLivingShip ==
    [][(~game.Over /\ OnBoard(ret'.r, ret'.c) /\ AtShip(ret'.r, ret'.c)
           /\ Hitpoints(game.Ship) > 0)
       => /\ ret'.err = nil
          /\ ret'.sr.Hit
          /\ Hitpoints(game'.Ship) = Hitpoints(game.Ship) - 1
          /\ IF Hitpoints(game'.Ship) = 0
             THEN /\ Cell(game', ret'.r, ret'.c) = "X"
                  /\ game'.Over
                  /\ ret'.sr.Destroyed
             ELSE /\ Cell(game', ret'.r, ret'.c) = "H"
                  /\ ~game'.Over
                  /\ ~ret'.sr.Destroyed
          /\ shipShots' <= Hitpoints(ship0)
          /\ ret'.sr.Destroyed <=> (shipShots' = Hitpoints(ship0))]_vars

C5_Witness ==
    /\ ship0 = NewArmoredShip(1, 1, 2)
    /\ game.Board.Size = 2
    /\ ret.op = "TakeShot"
    /\ ret.sr = ShotResult(TRUE, TRUE)
    /\ <<ret.r, ret.c>> = <<1, 1>>
    /\ shipShots = 2
    /\ Cell(game, 1, 1) = "X"
    /\ game.Over

\* C6: an accepted shot at a cell that does not hold a living ship reports
\* a miss, turns '.' into 'o', leaves a marked cell as it is, changes no
\* other cell, no hitpoint and not Over; shooting the same missed cell again
\* leaves the board as it was (only Shots grows).
C6_MissMarksOnce ==
    [][(~game.Over /\ OnBoard(ret'.r, ret'.c)
           /\ ~(AtShip(ret'.r, ret'.c) /\ Hitpoints(game.Ship) > 0))
       => /\ ret'.err = nil
          /\ ret'.sr = Miss
          /\ Cell(game', ret'.r, ret'.c)
                = (IF Cell(game, ret'.r, ret'.c) = "." THEN "o" ELSE Cell(game, ret'.r, ret'.c))
          /\ \A p \in AllCells : p # <<ret'.r, ret'.c>>
                => Cell(game', p[1], p[2]) = Cell(game, p[1], p[2])
          /\ game'.Ship = game.Ship
          /\ game'.Over = game.Over
          /\ (ret.op = "TakeShot" /\ ret.err = nil /\ ret.sr = Miss
                 /\ ret.r = ret'.r /\ ret.c = ret'.c)
             => (game'.Board = game.Board /\ game'.Shots = game.Shots + 1)]_vars

C6_Witness ==
    /\ ret.op = "TakeShot"
    /\ ret.err = nil
    /\ ret.sr = Miss
    /\ game.Shots = 2
    /\ Cell(game, ret.r, ret.c) = "o"
    /\ \A p \in AllCells : p # <<ret.r, ret.c>> => Cell(game, p[1], p[2]) = "."
    /\ Cardinality(AllCells) = 4
    /\ Hitpoints(ship0) >= 1
    /\ OnBoard(ship0.Row, ship0.Col)

\* C9: with an ArmoredShip of armor 0 every accepted shot at the ship's cell
\* reports a miss, marks the cell 'o' (never 'H' or 'X'), changes no
\* hitpoint, and the game stays Active.
C9_ZeroArmorNeverHit ==
    /\ []((ship0.kind = "ArmoredShip" /\ ship0.Armor = 0)
            => (~game.Over /\ game.Ship = ship0))
    /\ [][(ship0.kind = "ArmoredShip" /\ ship0.Armor = 0
             /\ OnBoard(ret'.r, ret'.c) /\ AtShip(ret'.r, ret'.c))
          => /\ ret'.err = nil
             /\ ret'.sr = Miss
             /\ Cell(game', ret'.r, ret'.c) = "o"
             /\ game'.Ship = game.Ship
             /\ ~game'.Over]_vars

C9_Witness ==
    /\ ship0.kind = "ArmoredShip"
    /\ ship0.Armor = 0
    /\ ret.op = "TakeShot"
    /\ ret.err = nil
    /\ ret.sr = Miss
    /\ AtShip(ret.r, ret.c)
    /\ shipShots = 2
    /\ Cell(game, ret.r, ret.c) = "o"
    /\ ~game.Over

\* C7: a BasicShip is destroyed by exactly one TakeHit call; an ArmoredShip
\* built with armor A >= 0 is alive until exactly A calls have been made:
\* the calls before the A-th return false and leave it alive, the A-th
\* returns true and leaves it dead.
C7_HitsToDestroy ==
    /\ [](ship0.kind = "BasicShip" => Hitpoints(ship0) = 1)
    /\ [](Hitpoints(ship0) >= 0 => ((Hitpoints(ship) > 0) <=> (hits < Hitpoints(ship0))))
    /\ [][(Hitpoints(ship0) >= 1 /\ hits' = hits + 1 /\ hits' <= Hitpoints(ship0))
          => /\ ret'.op = "TakeHit"
             /\ ret'.b <=> (hits' = Hitpoints(ship0))
             /\ (Hitpoints(ship') > 0) <=> (hits' < Hitpoints(ship0))
             /\ Hitpoints(ship') = Hitpoints(ship) - 1]_vars

C7_Witness ==
    /\ ship0.kind = "ArmoredShip"
    /\ ship0.Armor = 2
    /\ hits = 2
    /\ ret.op = "TakeHit"
    /\ ret.b
    /\ Hitpoints(ship) = 0

\* C8: TakeHit on a ship whose hitpoints are already zero returns true and
\* changes nothing: the counter stays at zero and the position stays put,
\* however often it is called.
C8_TakeHitAtZero ==
    [][(Hitpoints(ship) = 0 /\ hits' = hits + 1)
       => /\ ret'.op = "TakeHit"
          /\ ret'.b
          /\ ship' = ship
          /\ Hitpoints(ship') = 0]_vars

C8_Witness ==
    /\ ship0.kind = "ArmoredShip"
    /\ ship0.Armor = 2
    /\ hits = 4
    /\ ret.op = "TakeHit"
    /\ ret.b
    /\ ship = [ship0 EXCEPT !.Armor = 0]

\* the handlers whose TakeShot call has stored its count and not yet returned
PastStore == {h \in Handlers : pc[h] \in {"aim", "hit", "load", "dec", "test", "mark",
                                          "end", "look", "put"}}

AllDone == \A h \in Handlers : pc[h] = "done"

\* C10: with two /shot requests running TakeShot on the shared Game and no
\* lock, g.Shots++ is a read and a later write. The write stores the value
\* read plus one, so a write that follows another handler's write does not
\* advance the counter: Shots never exceeds the number of increments done,
\* and it can end below the number of accepted shots (the witness: both
\* shots accepted, Shots = 1).
C10_LostUpdate ==
    /\ [](game.Shots <= accepted + Cardinality(PastStore))
    /\ [](AllDone => game.Shots <= accepted)
    /\ [][\A h \in Handlers :
            (pc[h] = "store" /\ pc'[h] = "aim")
            => /\ game'.Shots = loc[h].n + 1
               /\ (loc[h].n < game.Shots) => (game'.Shots <= game.Shots)]_vars

C10_Witness ==
    /\ AllDone
    /\ \A h \in Handlers : resp[h].status = 200
    /\ accepted = 2
    /\ game.Shots = 1

\* the handlers inside TakeShot, past its two guards
InCall == {h \in Handlers : pc[h] \in {"count", "store"}} \cup PastStore

\* C11: TakeShot reads Over once, at its first guard. A call that read
\* Over = false is past the guards and always returns a nil error and is
\* counted, whatever Over has become meanwhile; so a call can return as
\* accepted on a game another call has already ended (the witness).
C11_AcceptedAfterOver ==
    /\ [][\A h \in Handlers :
            (pc[h] = "over" /\ pc'[h] # "over")
            => /\ (pc'[h] = "done" /\ ret'.err = ErrOver) <=> game.Over
               /\ pc'[h] = "count" => ~game.Over]_vars
    /\ [][\A h \in Handlers :
            (h \in InCall /\ pc'[h] \notin {"count", "store", "aim", "hit", "load", "dec",
                                            "test", "mark", "end", "look", "put"})
            => /\ pc'[h] = "reply"
               /\ ret'.err = nil
               /\ accepted' = accepted + 1]_vars

C11_Witness ==
    /\ AllDone
    /\ game.Over
    /\ \A h \in Handlers : resp[h].status = 200
    /\ ret.op = "TakeShot"
    /\ ret.err = nil
    /\ ~ret.sr.Destroyed
    /\ accepted = 2
    /\ game.Shots = 2

\* a ship built with at least one hitpoint at a position on the board
Winnable == Hitpoints(ship0) >= 1 /\ InBounds(game.Board, ship0.Row, ship0.Col)

\* C12: with a ship of h >= 1 hitpoints on the board and a shooter who
\* keeps coming back to the ship's cell, the game eventually is Over; it is
\* Over exactly when h shots at that cell have been accepted, however many
\* misses and rejected shots come in between; and the console loop exits
\* only when Over is true.
C12_FairShooterWins ==
    /\ <>(Winnable => game.Over)
    /\ [](Winnable => (shipShots <= Hitpoints(ship0)
                        /\ (game.Over <=> shipShots = Hitpoints(ship0))))
    /\ [](ui.pc = "exited" => game.Over)

C12_Witness ==
    /\ Winnable
    /\ ui.pc = "exited"
    /\ game.Over
    /\ Hitpoints(ship0) = 2
    /\ shipShots = 2
    /\ game.Shots = 3
    /\ accepted = 3

\* C13: a TakeShot call changes no cell but the targeted one, and no call
\* of TakeShot or TakeHit changes the board's size, the shape of the grid
\* or a ship's position (or kind).
C13_OnlyTargetCellChanges ==
    /\ [](/\ game.Ship.Row = ship0.Row /\ game.Ship.Col = ship0.Col
          /\ ship.Row = ship0.Row /\ ship.Col = ship0.Col)
    /\ [][/\ \A p \in AllCells : p # <<ret'.r, ret'.c>>
                => Cell(game', p[1], p[2]) = Cell(game, p[1], p[2])
          /\ game'.Board.Size = game.Board.Size
          /\ DOMAIN game'.Board.Cells = DOMAIN game.Board.Cells
          /\ \A i \in DOMAIN game.Board.Cells :
                DOMAIN game'.Board.Cells[i] = DOMAIN game.Board.Cells[i]
          /\ Position(game'.Ship) = Position(game.Ship)
          /\ game'.Ship.kind = game.Ship.kind
          /\ Position(ship') = Position(ship)
          /\ ship'.kind = ship.kind]_vars

C13_Witness ==
    /\ ret.op = "TakeShot"
    /\ ret.err = nil
    /\ ret.r # ret.c
    /\ game.Shots = 2
    /\ Cell(game, ret.r, ret.c) = "o"
    /\ Cell(game, ship0.Row, ship0.Col) = "H"
    /\ \A p \in AllCells : (p # <<ret.r, ret.c>> /\ p # <<ship0.Row, ship0.Col>>)
          => Cell(game, p[1], p[2]) = "."
    /\ Cardinality(AllCells) = 4

\* C14: rejected input never consumes a shot. In the console loop a failed
\* read or a TakeShot error prints an error, changes nothing of the game
\* and the loop goes on; in the /shot handler a missing or non-integer
\* parameter or a TakeShot error is answered with 400 and the handler's
\* step changes nothing of the game, nor does it stop the other handler.
C14_RejectedInputIsFree ==
    /\ [][(ui.pc = "loop" /\ ui'.pc = "loop")
          => /\ (ret'.err # nil) <=> (ui'.out = "error: ")
             /\ (ret'.err # nil) => (game' = game /\ accepted' = accepted /\ ~game'.Over)]_vars
    /\ [][\A h \in Handlers :
            /\ (pc[h] = "idle" /\ pc'[h] = "done")
               => (resp'[h].status = 400
                   /\ resp'[h].body \in {"Need r and c", "r and c must be numbers"})
            /\ (pc[h] = "over" /\ pc'[h] = "done")
               => (resp'[h].status = 400 /\ ret'.err \in {ErrOver, ErrRange}
                   /\ resp'[h].body = ret'.err)
            /\ (pc[h] # "done" /\ pc'[h] = "done" /\ resp'[h].status = 200)
               => pc[h] = "send"
            /\ (pc[h] # "done" /\ pc'[h] = "done" /\ resp'[h].status = 400)
               => /\ game' = game
                  /\ accepted' = accepted
                  /\ \A k \in Handlers \ {h} : pc'[k] = pc[k]]_vars

C14_Witness ==
    /\ AllDone
    /\ resp[1].status = 400
    /\ resp[1].body = "r and c must be numbers"
    /\ resp[2].status = 200
    /\ ret.op = "TakeShot"
    /\ ret.err = nil
    /\ accepted = 1
    /\ game.Shots = 1

\* C15: with a ship built with at least one hitpoint, in every state that
\* sequential TakeShot calls reach, Over is true exactly when the ship has
\* no hitpoint left; the ship is never dead while the game is Active.
C15_OverIffShipDead ==
    Hitpoints(ship0) >= 1
    => /\ game.Over <=> (Hitpoints(game.Ship) = 0)
       /\ game.Over <=> ~Alive(game.Ship)
       /\ Hitpoints(game.Ship) >= 0

C15_Witness ==
    /\ Hitpoints(ship0) = 2
    /\ game.Over
    /\ Hitpoints(game.Ship) = 0
    /\ ret.op = "TakeShot"
    /\ ret.err = nil
    /\ game.Shots = 3

\* C16: with a ship built with at least one hitpoint, every cell is one of
\* '.', 'o', 'H', 'X'; a cell that is not the ship's is '.' or 'o'; the
\* ship's cell is never 'o', is '.' iff the ship is undamaged, 'H' iff it is
\* damaged and alive, 'X' iff the game is Over; at most one cell is 'H' or 'X'.
C16_CellMarkers ==
    Hitpoints(ship0) >= 1
    => /\ \A p \in AllCells :
             /\ Cell(game, p[1], p[2]) \in {".", "o", "H", "X"}
             /\ p # <<ship0.Row, ship0.Col>> => Cell(game, p[1], p[2]) \in {".", "o"}
       /\ <<ship0.Row, ship0.Col>> \in AllCells
       /\ Cell(game, ship0.Row, ship0.Col) # "o"
       /\ (Cell(game, ship0.Row, ship0.Col) = ".")
             <=> (Hitpoints(game.Ship) = Hitpoints(ship0))
       /\ (Cell(game, ship0.Row, ship0.Col) = "H")
             <=> (Hitpoints(game.Ship) < Hitpoints(ship0) /\ Hitpoints(game.Ship) > 0)
       /\ (Cell(game, ship0.Row, ship0.Col) = "X") <=> game.Over
       /\ Cardinality({p \in AllCells : Cell(game, p[1], p[2]) \in {"H", "X"}}) <= 1

C16_Witness ==
    /\ Hitpoints(ship0) = 2
    /\ Hitpoints(game.Ship) = 1
    /\ ~game.Over
    /\ game.Shots = 3
    /\ Cell(game, ship0.Row, ship0.Col) = "H"
    /\ Cardinality({p \in AllCells : Cell(game, p[1], p[2]) = "o"}) = 2

\* C17: in a sequential history of TakeShot calls a call that returns
\* Destroyed also returns Hit, it is accepted, it ends the game, and no
\* call after it is accepted or returns Destroyed: at most one call returns
\* Destroyed and it is the last accepted one.
C17_DestroyedOnceAndLast ==
    [][/\ ret'.sr.Destroyed
          => (ret'.sr.Hit /\ ret'.err = nil /\ ~game.Over /\ game'.Over
              /\ accepted' = accepted + 1)
       /\ game.Over
          => (game'.Over /\ ret'.err # nil /\ ~ret'.sr.Destroyed /\ ~ret'.sr.Hit
              /\ accepted' = accepted)]_vars

C17_Witness ==
    /\ game.Over
    /\ ret.op = "TakeShot"
    /\ ret.err = ErrOver
    /\ OnBoard(ret.r, ret.c)
    /\ AtShip(ret.r, ret.c)
    /\ Hitpoints(ship0) = 2
    /\ accepted = 3
    /\ shipShots = 2

\* C18: a game whose ship has no hitpoint at construction (ArmoredShip with
\* armor <= 0) never is Over and never gets an 'H' or an 'X'; every shot on
\* the board is accepted as a miss and counted, and the console loop never
\* leaves its loop.
C18_DeadShipNeverOver ==
    /\ [](Hitpoints(ship0) <= 0
            => /\ ~game.Over
               /\ ui.pc = "loop"
               /\ game.Ship = ship0
               /\ \A p \in AllCells : Cell(game, p[1], p[2]) \in {".", "o"})
    /\ [][(Hitpoints(ship0) <= 0 /\ ret'.op = "TakeShot" /\ OnBoard(ret'.r, ret'.c))
          => /\ ret'.err = nil
             /\ ret'.sr = Miss
             /\ game'.Shots = game.Shots + 1
             /\ ui'.out = "Miss"]_vars

C18_Witness ==
    /\ ship0.kind = "ArmoredShip"
    /\ ship0.Armor < 0
    /\ ui.pc = "loop"
    /\ ui.out = "Miss"
    /\ ~game.Over
    /\ game.Shots = 3
    /\ shipShots = 2
    /\ AtShip(ret.r, ret.c)

\* C19: for every -armor and every -size >= 1 the ship main builds is alive,
\* has armor hitpoints when armor > 0 and 1 otherwise (a BasicShip then,
\* never an ArmoredShip of armor 0), and lies on the board.
C19_MainBuildsLivingShip ==
    flags.size >= 1
    => /\ Hitpoints(ship0) = (IF flags.armor > 0 THEN flags.armor ELSE 1)
       /\ Hitpoints(ship0) >= 1
       /\ Alive(ship0)
       /\ ship0.kind = (IF flags.armor > 0 THEN "ArmoredShip" ELSE "BasicShip")
       /\ game.Board.Size = flags.size
       /\ 0 <= ship0.Row /\ ship0.Row < flags.size
       /\ 0 <= ship0.Col /\ ship0.Col < flags.size
       /\ Winnable

C19_Witness ==
    /\ flags.armor = 0
    /\ flags.size = 2
    /\ ~flags.http
    /\ ship0.kind = "BasicShip"
    /\ game.Over
    /\ ui.pc = "exited"
    /\ game.Shots = 2

====
